---- MODULE Spec2Model ----
(***************************************************************************)
(* A model of src/src/main.js (the current revision, lines 78-352): the    *)
(* scene construction, the frame updater animate() and the resize          *)
(* listener.  JavaScript numbers are IEEE-754 binary64; the arithmetic of  *)
(* animate() (+=, *, Math.sin) is modelled on binary64 values, with        *)
(* round-to-nearest-even, so that accumulated rounding is visible.         *)
(***************************************************************************)
EXTENDS Integers, Sequences, FiniteSets, TLC

(***************************************************************************)
(* Natural numbers of arbitrary size, as little-endian sequences of limbs  *)
(* in base 2^15, without leading zero limbs (zero is << >>).  They carry   *)
(* the 53-bit significands of binary64 and their exact sums and products.  *)
(***************************************************************************)
LimbBits == 15
Base == 32768

RECURSIVE Trim(_)
Trim(a) ==
  IF a = <<>> THEN <<>>
  ELSE IF a[Len(a)] = 0 THEN Trim(SubSeq(a, 1, Len(a) - 1)) ELSE a

Limb(a, i) == IF i <= Len(a) THEN a[i] ELSE 0

Max(x, y) == IF x >= y THEN x ELSE y

RECURSIVE BAddFrom(_, _, _, _)
BAddFrom(a, b, i, c) ==
  IF i > Max(Len(a), Len(b))
  THEN (IF c = 0 THEN <<>> ELSE <<c>>)
  ELSE LET s == Limb(a, i) + Limb(b, i) + c
       IN  <<s % Base>> \o BAddFrom(a, b, i + 1, s \div Base)

BAdd(a, b) == BAddFrom(a, b, 1, 0)

\* a - b for a >= b
RECURSIVE BSubFrom(_, _, _, _)
BSubFrom(a, b, i, c) ==
  IF i > Len(a) THEN <<>>
  ELSE LET s == Limb(a, i) - Limb(b, i) - c
       IN  IF s < 0 THEN <<s + Base>> \o BSubFrom(a, b, i + 1, 1)
           ELSE <<s>> \o BSubFrom(a, b, i + 1, 0)

BSub(a, b) == Trim(BSubFrom(a, b, 1, 0))

\* -1, 0, 1 as a < b, a = b, a > b
RECURSIVE BCmpFrom(_, _, _)
BCmpFrom(a, b, i) ==
  IF i = 0 THEN 0
  ELSE IF a[i] < b[i] THEN -1
  ELSE IF a[i] > b[i] THEN 1
  ELSE BCmpFrom(a, b, i - 1)

BCmp(a, b) ==
  IF Len(a) < Len(b) THEN -1
  ELSE IF Len(a) > Len(b) THEN 1
  ELSE BCmpFrom(a, b, Len(a))

\* a * d + c for 0 <= d, c < Base
RECURSIVE BMulSmallFrom(_, _, _, _)
BMulSmallFrom(a, d, i, c) ==
  IF i > Len(a)
  THEN (IF c = 0 THEN <<>> ELSE <<c>>)
  ELSE LET s == a[i] * d + c
       IN  <<s % Base>> \o BMulSmallFrom(a, d, i + 1, s \div Base)

BMulSmall(a, d) == Trim(BMulSmallFrom(a, d, 1, 0))

Zeros(k) == [i \in 1..k |-> 0]

ShiftLimbs(a, k) == IF a = <<>> THEN <<>> ELSE Zeros(k) \o a

RECURSIVE BMulFrom(_, _, _)
BMulFrom(a, b, j) ==
  IF j > Len(b) THEN <<>>
  ELSE BAdd(ShiftLimbs(BMulSmall(a, b[j]), j - 1), BMulFrom(a, b, j + 1))

BMul(a, b) == BMulFrom(a, b, 1)

\* floor(a / d) for 0 < d <= Base, from the most significant limb down
RECURSIVE BDivSmallFrom(_, _, _, _)
BDivSmallFrom(a, d, i, r) ==
  IF i = 0 THEN <<>>
  ELSE LET s == r * Base + a[i]
       IN  BDivSmallFrom(a, d, i - 1, s % d) \o <<s \div d>>

BDivSmall(a, d) == Trim(BDivSmallFrom(a, d, Len(a), 0))

BShl(a, k) ==
  ShiftLimbs(BMulSmall(a, 2 ^ (k % LimbBits)), k \div LimbBits)

BShr(a, k) ==
  LET q == k \div LimbBits
      r == k % LimbBits
  IN  IF q >= Len(a) THEN <<>>
      ELSE IF r = 0 THEN SubSeq(a, q + 1, Len(a))
      ELSE BDivSmall(SubSeq(a, q + 1, Len(a)), 2 ^ r)

\* a mod 2^k
BLow(a, k) ==
  LET q == k \div LimbBits
      r == k % LimbBits
  IN  IF q >= Len(a) THEN a
      ELSE Trim(SubSeq(a, 1, q) \o <<a[q + 1] % (2 ^ r)>>)

RECURSIVE SmallBitLen(_)
SmallBitLen(x) == IF x = 0 THEN 0 ELSE 1 + SmallBitLen(x \div 2)

BBitLen(a) ==
  IF a = <<>> THEN 0
  ELSE LimbBits * (Len(a) - 1) + SmallBitLen(a[Len(a)])

BIsOdd(a) == a # <<>> /\ a[1] % 2 = 1

RECURSIVE BFromInt(_)
BFromInt(n) == IF n = 0 THEN <<>> ELSE <<n % Base>> \o BFromInt(n \div Base)

(***************************************************************************)
(* binary64 values: [s |-> sign bit, m |-> significand, e |-> exponent],   *)
(* standing for (-1)^s * m * 2^e with 2^52 <= m < 2^53, and m = << >> for  *)
(* zero.  The values of this program stay far inside the normal range, so  *)
(* subnormals, infinities and NaN are not represented.                     *)
(***************************************************************************)
SigBits == 53

FZero == [s |-> 0, m |-> <<>>, e |-> 0]

\* (-1)^s * M * 2^E rounded to the nearest binary64, ties to even
Round(s, M, E) ==
  LET L == BBitLen(M)
  IN  IF L = 0 THEN FZero
      ELSE IF L <= SigBits
      THEN [s |-> s, m |-> BShl(M, SigBits - L), e |-> E - (SigBits - L)]
      ELSE LET k    == L - SigBits
               q    == BShr(M, k)
               r    == BLow(M, k)
               half == BShl(<<1>>, k - 1)
               c    == BCmp(r, half)
               up   == c = 1 \/ (c = 0 /\ BIsOdd(q))
               q1   == IF up THEN BAdd(q, <<1>>) ELSE q
           IN  IF BBitLen(q1) > SigBits
               THEN [s |-> s, m |-> BShr(q1, 1), e |-> E + k + 1]
               ELSE [s |-> s, m |-> q1, e |-> E + k]

FNeg(a) == IF a.m = <<>> THEN a ELSE [a EXCEPT !.s = 1 - a.s]

\* a + b of binary64 (JavaScript's + and += on numbers)
FAdd(a, b) ==
  IF a.m = <<>> THEN b
  ELSE IF b.m = <<>> THEN a
  ELSE LET e == IF a.e <= b.e THEN a.e ELSE b.e
           A == BShl(a.m, a.e - e)
           B == BShl(b.m, b.e - e)
           c == BCmp(A, B)
       IN  IF a.s = b.s THEN Round(a.s, BAdd(A, B), e)
           ELSE IF c = 0 THEN FZero
           ELSE IF c = 1 THEN Round(a.s, BSub(A, B), e)
           ELSE Round(b.s, BSub(B, A), e)

\* a * b of binary64 (JavaScript's * on numbers)
FMul(a, b) ==
  IF a.m = <<>> \/ b.m = <<>> THEN FZero
  ELSE Round((a.s + b.s) % 2, BMul(a.m, b.m), a.e + b.e)

\* a <= b: the difference b - a is rounded, but its sign is exact
FLe(a, b) == LET d == FAdd(b, FNeg(a)) IN d.m = <<>> \/ d.s = 0

\* the number value of an integer written in the source or counted by the model
FromInt(n) == Round(0, BFromInt(n), 0)

RECURSIVE BDivTen(_, _)
BDivTen(a, k) == IF k = 0 THEN a ELSE BDivTen(BDivSmall(a, 10), k - 1)

RECURSIVE BMulTen(_, _)
BMulTen(a, k) == IF k = 0 THEN a ELSE BMulTen(BMulSmall(a, 10), k - 1)

\* The number value of the decimal literal n / 10^k (0.005 is Dec(5, 3)): the
\* nearest binary64.  The quotient keeps 2 * SigBits bits and the remainder is
\* folded into a sticky bit, so the rounding is that of the exact quotient.
Dec(n, k) ==
  LET p      == 2 * SigBits
      N      == BShl(BFromInt(n), p)
      q      == BDivTen(N, k)
      sticky == IF BMulTen(q, k) = N THEN 0 ELSE 1
  IN  Round(0, BAdd(BMulSmall(q, 2), BFromInt(sticky)), 0 - p - 1)

\* w / h for integer-valued w >= 0 and 0 < h < Base (window.innerWidth /
\* window.innerHeight): the nearest binary64 to the exact quotient
FDivInt(w, h) ==
  LET p      == 2 * SigBits
      N      == BShl(BFromInt(w), p)
      q      == BDivSmall(N, h)
      sticky == IF BMulSmall(q, h) = N THEN 0 ELSE 1
  IN  Round(0, BAdd(BMulSmall(q, 2), BFromInt(sticky)), 0 - p - 1)

(***************************************************************************)
(* The number literals of animate().                                       *)
(***************************************************************************)
TimeStep    == Dec(5, 3)       \* 0.005
RotYFactor  == Dec(3, 1)       \* 0.3
RotXPhase   == Dec(5, 1)       \* 0.5
RotXAmp     == Dec(5, 2)       \* 0.05
HoverBase   == Dec(4, 1)       \* 0.4
HoverPhase  == FromInt(2)      \* 2
HoverAmp    == Dec(1, 1)       \* 0.1

(***************************************************************************)
(* Bounds of the model: the frames and the runs of the resize listener of  *)
(* Spec, where the host does all it can between frames, and the frames of  *)
(* LongSpec, which follows the animation through a whole period of the     *)
(* hover (2 * time reaches 3 * pi / 2 at frame 472).                       *)
(***************************************************************************)
MaxFrames     == 8
MaxResizes    == 2
MaxLongFrames == 480

(***************************************************************************)
(* Math.sin of a binary64 x with 0 <= x < 8: the Taylor series of sin,     *)
(* summed in fixed point with SinFrac fraction bits on FixLimbs limbs, and *)
(* then rounded to the nearest binary64.  (ECMAScript leaves the last bit  *)
(* of Math.sin to the engine; this is the correctly rounded sine.)         *)
(***************************************************************************)
SinFrac == 90

FixLimbs == 7

\* the fixed-point numbers: FixLimbs limbs, the least significant first
Fixed == [1..FixLimbs -> 0..(Base - 1)]

\* a natural in limbs as a fixed-point number
Fix(a) == [i \in 1..FixLimbs |-> Limb(a, i)] @@ <<>>

FixZero == Fix(<<>>)

\* a + b (below 2^(LimbBits * FixLimbs))
FixAdd[a \in Fixed, b \in Fixed] ==
  LET s1 == a[1] + b[1]
      s2 == a[2] + b[2] + s1 \div Base
      s3 == a[3] + b[3] + s2 \div Base
      s4 == a[4] + b[4] + s3 \div Base
      s5 == a[5] + b[5] + s4 \div Base
      s6 == a[6] + b[6] + s5 \div Base
      s7 == a[7] + b[7] + s6 \div Base
  IN  << s1 % Base, s2 % Base, s3 % Base, s4 % Base, s5 % Base, s6 % Base, s7 % Base >>

\* floor(a / d), from the most significant limb down
FixDivSmall[a \in Fixed, d \in 1..Base] ==
  LET r7 == a[7]
      r6 == (r7 % d) * Base + a[6]
      r5 == (r6 % d) * Base + a[5]
      r4 == (r5 % d) * Base + a[4]
      r3 == (r4 % d) * Base + a[3]
      r2 == (r3 % d) * Base + a[2]
      r1 == (r2 % d) * Base + a[1]
  IN  << r1 \div d, r2 \div d, r3 \div d, r4 \div d, r5 \div d, r6 \div d, r7 \div d >>

\* the low and the high limb of the product of limb i of a and limb j of b
Lo(a, b, i, j) == (a[i] * b[j]) % Base
Hi(a, b, i, j) == (a[i] * b[j]) \div Base

\* the columns of the product a * b: the c'th sums the limbs of weight
\* Base^(c-1) of the limb products
FixColumns[a \in Fixed, b \in Fixed] ==
  << Lo(a, b, 1, 1),
     Lo(a, b, 1, 2) + Lo(a, b, 2, 1)
       + Hi(a, b, 1, 1),
     Lo(a, b, 1, 3) + Lo(a, b, 2, 2) + Lo(a, b, 3, 1)
       + Hi(a, b, 1, 2) + Hi(a, b, 2, 1),
     Lo(a, b, 1, 4) + Lo(a, b, 2, 3) + Lo(a, b, 3, 2) + Lo(a, b, 4, 1)
       + Hi(a, b, 1, 3) + Hi(a, b, 2, 2) + Hi(a, b, 3, 1),
     Lo(a, b, 1, 5) + Lo(a, b, 2, 4) + Lo(a, b, 3, 3) + Lo(a, b, 4, 2) + Lo(a, b, 5, 1)
       + Hi(a, b, 1, 4) + Hi(a, b, 2, 3) + Hi(a, b, 3, 2) + Hi(a, b, 4, 1),
     Lo(a, b, 1, 6) + Lo(a, b, 2, 5) + Lo(a, b, 3, 4) + Lo(a, b, 4, 3) + Lo(a, b, 5, 2) + Lo(a, b, 6, 1)
       + Hi(a, b, 1, 5) + Hi(a, b, 2, 4) + Hi(a, b, 3, 3) + Hi(a, b, 4, 2) + Hi(a, b, 5, 1),
     Lo(a, b, 1, 7) + Lo(a, b, 2, 6) + Lo(a, b, 3, 5) + Lo(a, b, 4, 4) + Lo(a, b, 5, 3) + Lo(a, b, 6, 2) + Lo(a, b, 7, 1)
       + Hi(a, b, 1, 6) + Hi(a, b, 2, 5) + Hi(a, b, 3, 4) + Hi(a, b, 4, 3) + Hi(a, b, 5, 2) + Hi(a, b, 6, 1),
     Lo(a, b, 2, 7) + Lo(a, b, 3, 6) + Lo(a, b, 4, 5) + Lo(a, b, 5, 4) + Lo(a, b, 6, 3) + Lo(a, b, 7, 2)
       + Hi(a, b, 1, 7) + Hi(a, b, 2, 6) + Hi(a, b, 3, 5) + Hi(a, b, 4, 4) + Hi(a, b, 5, 3) + Hi(a, b, 6, 2) + Hi(a, b, 7, 1),
     Lo(a, b, 3, 7) + Lo(a, b, 4, 6) + Lo(a, b, 5, 5) + Lo(a, b, 6, 4) + Lo(a, b, 7, 3)
       + Hi(a, b, 2, 7) + Hi(a, b, 3, 6) + Hi(a, b, 4, 5) + Hi(a, b, 5, 4) + Hi(a, b, 6, 3) + Hi(a, b, 7, 2),
     Lo(a, b, 4, 7) + Lo(a, b, 5, 6) + Lo(a, b, 6, 5) + Lo(a, b, 7, 4)
       + Hi(a, b, 3, 7) + Hi(a, b, 4, 6) + Hi(a, b, 5, 5) + Hi(a, b, 6, 4) + Hi(a, b, 7, 3),
     Lo(a, b, 5, 7) + Lo(a, b, 6, 6) + Lo(a, b, 7, 5)
       + Hi(a, b, 4, 7) + Hi(a, b, 5, 6) + Hi(a, b, 6, 5) + Hi(a, b, 7, 4),
     Lo(a, b, 6, 7) + Lo(a, b, 7, 6)
       + Hi(a, b, 5, 7) + Hi(a, b, 6, 6) + Hi(a, b, 7, 5),
     Lo(a, b, 7, 7)
       + Hi(a, b, 6, 7) + Hi(a, b, 7, 6) >>

Columns == [1..(2 * FixLimbs - 1) -> Nat]

\* floor(a * b / 2^SinFrac): the carries taken through the columns, and the
\* limbs from the (SinFrac / LimbBits + 1)'th on
FixCarry[col \in Columns] ==
  LET v1 == col[1]
      v2 == col[2] + v1 \div Base
      v3 == col[3] + v2 \div Base
      v4 == col[4] + v3 \div Base
      v5 == col[5] + v4 \div Base
      v6 == col[6] + v5 \div Base
      v7 == col[7] + v6 \div Base
      v8 == col[8] + v7 \div Base
      v9 == col[9] + v8 \div Base
      v10 == col[10] + v9 \div Base
      v11 == col[11] + v10 \div Base
      v12 == col[12] + v11 \div Base
      v13 == col[13] + v12 \div Base
  IN  << v7 % Base, v8 % Base, v9 % Base, v10 % Base, v11 % Base, v12 % Base, v13 % Base >>

FixMul(a, b) == FixCarry[FixColumns[a, b]]

\* The Taylor series: term is x^(2k-1)/(2k-1)!, pos and neg are the sums of
\* the terms added and subtracted so far; the sum ends with the first term
\* that vanishes.
SinSums == [term : Fixed, X2 : Fixed, k : Nat, pos : Fixed, neg : Fixed]

SinSeries[acc \in SinSums] ==
  LET t == FixDivSmall[FixMul(acc.term, acc.X2), (2 * acc.k) * (2 * acc.k + 1)]
  IN  IF t = FixZero THEN acc
      ELSE IF acc.k % 2 = 1
      THEN SinSeries[[acc EXCEPT !.term = t, !.k = @ + 1, !.neg = FixAdd[@, t]]]
      ELSE SinSeries[[acc EXCEPT !.term = t, !.k = @ + 1, !.pos = FixAdd[@, t]]]

\* pos - neg, rounded
SinRound[acc \in SinSums] ==
  LET P == Trim(acc.pos)
      Q == Trim(acc.neg)
      c == BCmp(P, Q)
  IN  IF c = 0 THEN FZero
      ELSE IF c = 1 THEN Round(0, BSub(P, Q), 0 - SinFrac)
      ELSE Round(1, BSub(Q, P), 0 - SinFrac)

SinStart[X \in Fixed] ==
  [term |-> X, X2 |-> FixMul(X, X), k |-> 1, pos |-> X, neg |-> FixZero]

SinTaylor(x) ==
  IF x.m = <<>> THEN FZero
  ELSE SinRound[SinSeries[SinStart[Fix(BShl(x.m, SinFrac + x.e))]]]


\* ts (not empty) followed by the n values time takes after its last, by halves
RECURSIVE ExtendBy(_, _)
ExtendBy(ts, n) ==
  IF Len(ts) = 0 \/ n = 0 THEN ts
  ELSE IF n = 1 THEN Append(ts, FAdd(ts[Len(ts)], TimeStep))
  ELSE ExtendBy(ExtendBy(ts, n \div 2), n - n \div 2)

(***************************************************************************)
(* The right-hand sides of the assignments of animate(), as functions of   *)
(* the value of time they read.  Each is a table over the values time     *)
(* takes within the bounds, computed once, one operation of the            *)
(* expression after the other; time takes no other value (animate() alone  *)
(* writes it, by time += 0.005 from 0).                                    *)
(***************************************************************************)
Times == ExtendBy(<<FZero>>, Max(MaxFrames, MaxLongFrames) + 1)

TimeValues == {Times[i] : i \in 1..Len(Times)}

StepTable == [t \in TimeValues |-> FAdd(t, TimeStep)] @@ <<>>

RotYTable == [t \in TimeValues |-> FMul(t, RotYFactor)] @@ <<>>

\* time * 0.5 and time * 2, the arguments of Math.sin
RotXArg == [t \in TimeValues |-> FMul(t, RotXPhase)] @@ <<>>

HoverArg == [t \in TimeValues |-> FMul(t, HoverPhase)] @@ <<>>

SinArgs == {RotXArg[t] : t \in TimeValues} \cup {HoverArg[t] : t \in TimeValues}

SinTable == [x \in SinArgs |-> SinTaylor(x)] @@ <<>>

\* Math.sin(x)
FSin(x) == IF x \in DOMAIN SinTable THEN SinTable[x] ELSE SinTaylor(x)

RotXTable == [t \in TimeValues |-> FMul(SinTable[RotXArg[t]], RotXAmp)] @@ <<>>

HoverSwing == [t \in TimeValues |-> FMul(SinTable[HoverArg[t]], HoverAmp)] @@ <<>>

HoverTable == [t \in TimeValues |-> FAdd(HoverBase, HoverSwing[t])] @@ <<>>

\* time + 0.005
TimePlusStep(t) == StepTable[t]

\* time * 0.3
CubeRotationY(t) == RotYTable[t]

\* Math.sin(time * 0.5) * 0.05
CubeRotationX(t) == RotXTable[t]

\* 0.4 + Math.sin(time * 2) * 0.1
SphereY(t) == HoverTable[t]

\* the window sizes the host may take: two of them share the aspect 4/3
WindowSizes == {<<1024, 768>>, <<800, 600>>, <<1920, 1080>>}

None == "none"

VARIABLES
  pc,            \* "constructed": lines 78-317 have run; "running": the script has ended
  window,        \* [innerWidth, innerHeight] of the host window
  scene,         \* scene.children, in the order of scene.add
  camera,        \* [aspect]
  renderer,      \* [width, height] as given to setSize
  controls,      \* the OrbitControls flags
  time,          \* let time
  cube,          \* [position, rotation] of the cube
  accentSphere,  \* [position] of the accent sphere
  pending,       \* frame callbacks requested and not yet run
  listener,      \* whether the resize listener is registered
  frames,        \* invocations of animate() so far
  resizes,       \* the window sizes the resize listener has run with, in order
  calls,         \* the library calls of the last invocation of animate(), in order
  drawn,         \* << what renderer.render was given >> in the last invocation of animate(), or << >>
  uncaught       \* whether the last invocation of animate() ended in an exception

vars == <<pc, window, scene, camera, renderer, controls, time, cube, accentSphere,
          pending, listener, frames, resizes, calls, drawn, uncaught>>

(***************************************************************************)
(* Scene construction, lines 85-317.                                       *)
(***************************************************************************)
\* a node of the scene graph: the const it is bound to, its class, its
\* geometry, its rotation about x and its height (position.y, in hundredths)
Node(name, type, geometry, rotationX, y) ==
  [name |-> name, type |-> type, geometry |-> geometry, rotationX |-> rotationX,
   y |-> y]

\* the scene without scene.add(pedestal)
SceneBuilderWithoutPedestal ==
  << Node("ambientLight", "AmbientLight",     None,               "0",     0),
     Node("mainLight",    "DirectionalLight", None,               "0",     1200),
     Node("accentLight",  "PointLight",       None,               "0",     300),
     Node("rimLight",     "PointLight",       None,               "0",     200),
     Node("floor",        "Mesh",             "PlaneGeometry",    "-PI/2", 0),
     Node("backWall",     "Mesh",             "PlaneGeometry",    "0",     600),
     Node("leftWall",     "Mesh",             "PlaneGeometry",    "0",     600),
     Node("rightWall",    "Mesh",             "PlaneGeometry",    "0",     600),
     Node("ceiling",      "Mesh",             "PlaneGeometry",    "PI/2",  1200),
     Node("cube",         "Mesh",             "BoxGeometry",      "0",     110),
     Node("accentSphere", "Mesh",             "SphereGeometry",   "0",     40) >>

\* the calls of scene.add, in source order
SceneBuilder ==
  << Node("ambientLight", "AmbientLight",     None,               "0",     0),
     Node("mainLight",    "DirectionalLight", None,               "0",     1200),
     Node("accentLight",  "PointLight",       None,               "0",     300),
     Node("rimLight",     "PointLight",       None,               "0",     200),
     Node("floor",        "Mesh",             "PlaneGeometry",    "-PI/2", 0),
     Node("backWall",     "Mesh",             "PlaneGeometry",    "0",     600),
     Node("leftWall",     "Mesh",             "PlaneGeometry",    "0",     600),
     Node("rightWall",    "Mesh",             "PlaneGeometry",    "0",     600),
     Node("ceiling",      "Mesh",             "PlaneGeometry",    "PI/2",  1200),
     Node("cube",         "Mesh",             "BoxGeometry",      "0",     110),
     Node("pedestal",     "Mesh",             "CylinderGeometry", "0",     15),
     Node("accentSphere", "Mesh",             "SphereGeometry",   "0",     40) >>

\* new OrbitControls(...) and the flags set on it; enableRotate and enableZoom
\* are not assigned and keep the library's default, true
ControlsSetup ==
  [enableDamping |-> TRUE, enableRotate |-> TRUE, enableZoom |-> TRUE,
   enablePan |-> FALSE]

\* new PerspectiveCamera(50, innerWidth / innerHeight, 0.1, 100)
CameraSetup(w) == [aspect |-> FDivInt(w[1], w[2])]

\* setSize with its arguments in the wrong order
SetSizeSwapped(w) == [width |-> w[2], height |-> w[1]]

\* renderer.setSize(innerWidth, innerHeight)
SetSize(w) == [width |-> w[1], height |-> w[2]]

\* cube.position.set(0, 1.1, 0); its rotation starts at the library's 0
CubeSetup ==
  [position |-> [x |-> FZero, y |-> Dec(11, 1), z |-> FZero],
   rotation |-> [x |-> FZero, y |-> FZero]]

\* accentSphere.position.set(-5, 0.4, -4)
AccentSphereSetup ==
  [position |-> [x |-> FNeg(FromInt(5)), y |-> Dec(4, 1), z |-> FNeg(FromInt(4))]]

Init ==
  /\ pc = "constructed"
  /\ window \in WindowSizes
  /\ scene = SceneBuilder
  /\ camera = CameraSetup(window)
  /\ renderer = SetSize(window)
  /\ controls = ControlsSetup
  /\ time = FZero
  /\ cube = CubeSetup
  /\ accentSphere = AccentSphereSetup
  /\ pending = 0
  /\ listener = FALSE
  /\ frames = 0
  /\ resizes = <<>>
  /\ calls = <<>>
  /\ drawn = <<>>
  /\ uncaught = FALSE

(***************************************************************************)
(* animate(), lines 323-339, statement by statement.  The local state st   *)
(* holds what the statements read and write.  A library call returns or    *)
(* throws; an exception ends the invocation at that call.                  *)
(***************************************************************************)
\* animate() with the cube's rotation written before time is advanced
AnimateBodyRotationFirst ==
  << "requestAnimationFrame", "cube.rotation.y", "cube.rotation.x", "time",
     "accentSphere.position.y", "controls.update", "renderer.render" >>

\* animate() with the sphere's height written before time is advanced
AnimateBodyHoverFirst ==
  << "requestAnimationFrame", "accentSphere.position.y", "time", "cube.rotation.y",
     "cube.rotation.x", "controls.update", "renderer.render" >>

\* animate() rendering before the controls are updated
AnimateBodyRenderFirst ==
  << "requestAnimationFrame", "time", "cube.rotation.y", "cube.rotation.x",
     "accentSphere.position.y", "renderer.render", "controls.update" >>

\* animate() without the request of the next frame
AnimateBodyWithoutRequest ==
  << "time", "cube.rotation.y", "cube.rotation.x", "accentSphere.position.y",
     "controls.update", "renderer.render" >>

\* animate() requesting the next frame as its last statement
AnimateBodyRequestLast ==
  << "time", "cube.rotation.y", "cube.rotation.x", "accentSphere.position.y",
     "controls.update", "renderer.render", "requestAnimationFrame" >>

AnimateBody ==
  << "requestAnimationFrame", "time", "cube.rotation.y", "cube.rotation.x",
     "accentSphere.position.y", "controls.update", "renderer.render" >>

\* the local states one statement may leave
Exec(st, stmt) ==
  CASE stmt = "requestAnimationFrame" ->
         { [st EXCEPT !.pending = @ + 1] }
    [] stmt = "time" ->
         { [st EXCEPT !.time = TimePlusStep(@)] }
    [] stmt = "cube.rotation.y" ->
         { [st EXCEPT !.cube.rotation.y = CubeRotationY(st.time)] }
    [] stmt = "cube.rotation.x" ->
         { [st EXCEPT !.cube.rotation.x = CubeRotationX(st.time)] }
    [] stmt = "accentSphere.position.y" ->
         { [st EXCEPT !.accentSphere.position.y = SphereY(st.time)] }
    [] stmt = "controls.update" ->
         { [st EXCEPT !.calls = Append(@, "update")],
           [st EXCEPT !.calls = Append(@, "update"), !.thrown = TRUE] }
    [] stmt = "renderer.render" ->
         { [st EXCEPT !.calls = Append(@, "render"),
                      !.drawn = << [cube |-> st.cube, accentSphere |-> st.accentSphere,
                                    camera |-> st.camera] >>],
           [st EXCEPT !.calls = Append(@, "render"),
                      !.drawn = << [cube |-> st.cube, accentSphere |-> st.accentSphere,
                                    camera |-> st.camera] >>,
                      !.thrown = TRUE] }

\* the local states the statements from the i'th on may end in
RECURSIVE Run(_, _, _)
Run(st, body, i) ==
  IF i > Len(body) \/ st.thrown THEN {st}
  ELSE UNION { Run(s2, body, i + 1) : s2 \in Exec(st, body[i]) }

\* one invocation of animate() with p frame callbacks pending as it starts
Animate(p) ==
  \E st \in Run([time |-> time, cube |-> cube, accentSphere |-> accentSphere,
                 camera |-> camera, pending |-> p, calls |-> <<>>, drawn |-> <<>>,
                 thrown |-> FALSE], AnimateBody, 1) :
      /\ time' = st.time
      /\ cube' = st.cube
      /\ accentSphere' = st.accentSphere
      /\ pending' = st.pending
      /\ calls' = st.calls
      /\ drawn' = st.drawn
      /\ uncaught' = st.thrown
      /\ frames' = frames + 1

\* lines 341-351: the script calls animate() and then registers the resize
\* listener; an exception of animate() ends the script before line 347
Startup ==
  /\ pc = "constructed"
  /\ Animate(pending)
  /\ listener' = ~uncaught'
  /\ pc' = "running"
  /\ UNCHANGED <<window, scene, camera, renderer, controls, resizes>>

\* the host runs one pending frame callback
FrameUpTo(max) ==
  /\ pc = "running"
  /\ pending > 0
  /\ frames < max
  /\ Animate(pending - 1)
  /\ UNCHANGED <<pc, window, scene, camera, renderer, controls, listener, resizes>>

Frame == FrameUpTo(MaxFrames)

\* the host window takes another size
WindowChange ==
  /\ pc = "running"
  /\ \E w \in WindowSizes : w # window /\ window' = w
  /\ UNCHANGED <<pc, scene, camera, renderer, controls, time, cube, accentSphere,
                 pending, listener, frames, resizes, calls, drawn, uncaught>>

\* a resize listener that also restarts the animation clock
ResizeResettingTime ==
  /\ pc = "running"
  /\ listener
  /\ Len(resizes) < MaxResizes
  /\ camera' = [camera EXCEPT !.aspect = FDivInt(window[1], window[2])]
  /\ renderer' = SetSize(window)
  /\ resizes' = Append(resizes, window)
  /\ time' = FZero
  /\ UNCHANGED <<pc, window, scene, controls, cube, accentSphere, pending,
                 listener, frames, calls, drawn, uncaught>>

\* a resize listener that takes the aspect from the renderer's size before
\* it sets that size
ResizeStaleAspect ==
  /\ pc = "running"
  /\ listener
  /\ Len(resizes) < MaxResizes
  /\ camera' = [camera EXCEPT !.aspect = FDivInt(renderer.width, renderer.height)]
  /\ renderer' = SetSize(window)
  /\ resizes' = Append(resizes, window)
  /\ UNCHANGED <<pc, window, scene, controls, time, cube, accentSphere, pending,
                 listener, frames, calls, drawn, uncaught>>

\* the resize listener, lines 347-351
Resize ==
  /\ pc = "running"
  /\ listener
  /\ Len(resizes) < MaxResizes
  /\ camera' = [camera EXCEPT !.aspect = FDivInt(window[1], window[2])]
  /\ renderer' = SetSize(window)
  /\ resizes' = Append(resizes, window)
  /\ UNCHANGED <<pc, window, scene, controls, time, cube, accentSphere, pending,
                 listener, frames, calls, drawn, uncaught>>

Next == Startup \/ Frame \/ WindowChange \/ Resize

Spec == Init /\ [][Next]_vars

\* the script runs to its end and the host delivers frame callbacks
FairSpec == Spec /\ WF_vars(Startup) /\ WF_vars(Frame)

(***************************************************************************)
(* The same program in a window of one size, followed for MaxLongFrames    *)
(* frames.                                                                 *)
(***************************************************************************)
LongInit == Init /\ window = <<1024, 768>>

LongFrame == FrameUpTo(MaxLongFrames)

LongNext == Startup \/ LongFrame \/ Resize

LongSpec == LongInit /\ [][LongNext]_vars

(***************************************************************************)
(* Properties.                                                             *)
(***************************************************************************)
\* 0.005 * n as JavaScript computes it
StepTimes(n) == FMul(TimeStep, FromInt(n))

\* C1 as stated: after n invocations of animate(), time equals 0.005 * n.
C1_TimeIsStepTimesFrames == time = StepTimes(frames)

\* C1, amended: after n invocations of animate() time is the result of n
\* successive binary64 additions of 0.005 to 0, which is 0.005 * n for
\* n <= 5; every invocation adds one step and raises time, and no other
\* operation changes time.
C1_TimeAccumulates ==
  /\ [](time = Times[frames + 1])
  /\ [](frames <= 5 => time = StepTimes(frames))
  /\ [][IF frames' = frames + 1
        THEN time' = FAdd(time, TimeStep) /\ ~FLe(time', time)
        ELSE time' = time]_vars

\* six frames and a run of the resize listener: time is not 0.005 * 6
C1_Witness ==
  /\ frames = 6
  /\ resizes # <<>>
  /\ time = Times[7]
  /\ time # StepTimes(6)

\* C2 as stated: after n >= 1 invocations cube.rotation.y = (0.005 * n) * 0.3
\* and cube.rotation.x = sin((0.005 * n) * 0.5) * 0.05.
C2_RotationFromFrameCount ==
  frames >= 1 =>
    /\ cube.rotation.y = FMul(StepTimes(frames), RotYFactor)
    /\ cube.rotation.x = FMul(FSin(FMul(StepTimes(frames), RotXPhase)), RotXAmp)

\* C2, amended: after n >= 1 invocations cube.rotation.y = time * 0.3 and
\* cube.rotation.x = sin(time * 0.5) * 0.05 for the value of time after that
\* frame's increment; these are the values stated from 0.005 * n for n <= 5.
C2_RotationFromTime ==
  frames >= 1 =>
    /\ cube.rotation.y = FMul(time, RotYFactor)
    /\ cube.rotation.x = FMul(FSin(FMul(time, RotXPhase)), RotXAmp)
    /\ frames <= 5 => C2_RotationFromFrameCount

\* six frames: the rotation is that of the accumulated time, not of 0.005 * 6
C2_Witness ==
  /\ frames = 6
  /\ cube.rotation.y = FMul(Times[7], RotYFactor)
  /\ cube.rotation.y # FMul(StepTimes(6), RotYFactor)

\* the interval of the hover
HoverLow == Dec(3, 1)
HoverHigh == Dec(5, 1)

HoverInRange ==
  /\ FLe(HoverLow, accentSphere.position.y)
  /\ FLe(accentSphere.position.y, HoverHigh)

\* C3 as stated: after n >= 1 invocations accentSphere.position.y equals
\* 0.4 + sin((0.005 * n) * 2) * 0.1, and it always lies in [0.3, 0.5].
C3_HoverFromFrameCount ==
  /\ HoverInRange
  /\ frames >= 1 =>
       accentSphere.position.y =
         FAdd(HoverBase, FMul(FSin(FMul(StepTimes(frames), HoverPhase)), HoverAmp))

\* C3, amended: after n >= 1 invocations accentSphere.position.y equals
\* 0.4 + sin(time * 2) * 0.1 for the value of time after that frame's
\* increment, which is the value stated from 0.005 * n for n <= 5; in every
\* state it lies in [0.3, 0.5].
C3_HoverFromTime ==
  /\ HoverInRange
  /\ frames >= 1 =>
       accentSphere.position.y =
         FAdd(HoverBase, FMul(FSin(FMul(time, HoverPhase)), HoverAmp))
  /\ frames \in 1..5 => C3_HoverFromFrameCount

\* the sphere near the bottom of its hover, after it has been near the top,
\* and after a run of the resize listener
C3_Witness ==
  /\ frames = 471
  /\ resizes # <<>>
  /\ FLe(accentSphere.position.y, Dec(30001, 5))
  /\ ~FLe(accentSphere.position.y, HoverLow)

\* C4: after construction the camera's aspect is innerWidth / innerHeight and
\* the renderer's size is (innerWidth, innerHeight); after a run of the resize
\* listener they are those of the window size it ran with, and the aspect is
\* 4/3 for 1024 by 768.
C4_AspectAndSize ==
  /\ pc = "constructed" =>
       /\ camera.aspect = FDivInt(window[1], window[2])
       /\ renderer = [width |-> window[1], height |-> window[2]]
  /\ resizes # <<>> =>
       /\ camera.aspect = FDivInt(resizes[Len(resizes)][1], resizes[Len(resizes)][2])
       /\ renderer = [width |-> resizes[Len(resizes)][1],
                      height |-> resizes[Len(resizes)][2]]
       /\ resizes[Len(resizes)] = <<1024, 768>> => camera.aspect = FDivInt(4, 3)

\* the listener has run with 1024 by 768 in a window that started otherwise
C4_Witness ==
  /\ resizes # <<>>
  /\ resizes[Len(resizes)] = <<1024, 768>>
  /\ camera.aspect = FDivInt(1024, 768)
  /\ renderer = [width |-> 1024, height |-> 768]
  /\ frames >= 2

\* C5: a run of the resize listener with the window size of its previous run,
\* whatever happened in between, leaves the camera's aspect and the renderer's
\* size as they were.
C5_ResizeIdempotent ==
  [][(resizes' # resizes /\ resizes # <<>> /\ resizes[Len(resizes)] = window)
       => (camera' = camera /\ renderer' = renderer)]_vars

\* two runs of the listener with the same window size, with frames run
C5_Witness ==
  /\ Len(resizes) = 2
  /\ resizes[1] = resizes[2]
  /\ frames >= 2
  /\ camera.aspect = FDivInt(resizes[1][1], resizes[1][2])

\* what renderer.render is given when the transforms are those of time
DrawnCurrent ==
  /\ drawn # <<>>
  /\ drawn[1].cube = cube
  /\ drawn[1].accentSphere = accentSphere
  /\ drawn[1].cube.rotation.y = FMul(time, RotYFactor)
  /\ drawn[1].cube.rotation.x = FMul(FSin(FMul(time, RotXPhase)), RotXAmp)
  /\ drawn[1].accentSphere.position.y =
       FAdd(HoverBase, FMul(FSin(FMul(time, HoverPhase)), HoverAmp))

\* C6 as stated: every invocation of animate() calls controls.update() once,
\* then renderer.render() once, and render() is given the transforms of the
\* current time.
C6_UpdateThenRenderAlways ==
  frames >= 1 => (calls = <<"update", "render">> /\ DrawnCurrent)

\* C6, amended: every invocation of animate() calls controls.update() once
\* and before any render(); render() is called once when update() returns
\* and not at all when update() throws; render(), when called, is given the
\* transforms written from the current time.
C6_UpdateThenRender ==
  frames >= 1 =>
    /\ calls \in {<<"update">>, <<"update", "render">>}
    /\ calls = <<"update">> => (uncaught /\ drawn = <<>>)
    /\ ~uncaught => calls = <<"update", "render">>
    /\ calls = <<"update", "render">> => DrawnCurrent

\* a later frame that updated and rendered
C6_Witness ==
  /\ frames >= 2
  /\ ~uncaught
  /\ calls = <<"update", "render">>
  /\ DrawnCurrent

\* C7 as stated: rotation, zoom and panning are all enabled on the controls.
C7_AllInteractionsEnabled ==
  controls.enableRotate /\ controls.enableZoom /\ controls.enablePan

IsLight(n) == n.type \in {"AmbientLight", "DirectionalLight", "PointLight"}

\* a horizontal plane at height 0, facing up
IsGroundPlane(n) ==
  n.type = "Mesh" /\ n.geometry = "PlaneGeometry" /\ n.rotationX = "-PI/2" /\ n.y = 0

\* the places in the scene of the meshes of a geometry
Meshes(g) == {i \in DOMAIN scene : scene[i].type = "Mesh" /\ scene[i].geometry = g}

GroundPlanes == {i \in DOMAIN scene : IsGroundPlane(scene[i])}

Lights == {i \in DOMAIN scene : IsLight(scene[i])}

\* C8: the scene holds one ground plane, one cube, one pedestal, one sphere
\* and at least three lights, and no step adds a node to it or removes one.
C8_SceneFixed ==
  /\ [](/\ Cardinality(GroundPlanes) = 1
        /\ Cardinality(Meshes("BoxGeometry")) = 1
        /\ Cardinality(Meshes("CylinderGeometry")) = 1
        /\ Cardinality(Meshes("SphereGeometry")) = 1
        /\ Cardinality(Lights) >= 3)
  /\ [][scene' = scene]_vars

\* frames and resizes have run on the scene as built
C8_Witness ==
  /\ frames >= 2
  /\ resizes # <<>>
  /\ Len(scene) = 12
  /\ Cardinality(Lights) = 4

\* C9: once the script has run, one frame callback is pending at every
\* moment, and when the host delivers the callbacks every frame is followed
\* by another (up to the bound of the model), whatever the resizes.
C9_LoopContinues ==
  /\ [](pc = "running" => pending = 1)
  /\ [][frames' \in {frames, frames + 1}]_vars
  /\ \A n \in 0..(MaxFrames - 1) : (frames = n) ~> (frames = n + 1)

\* the last frame of the model, with resizes on the way and a callback pending
C9_Witness ==
  /\ frames = MaxFrames
  /\ Len(resizes) = MaxResizes
  /\ pending = 1

\* C10: an invocation of animate() that ends in an exception of update() or
\* render() has advanced time, written the transforms from it and left one
\* frame callback pending, and the next frame can run.
C10_FailedFrameKept ==
  /\ [][(frames' = frames + 1 /\ uncaught') =>
          /\ calls' \in {<<"update">>, <<"update", "render">>}
          /\ time' = FAdd(time, TimeStep)
          /\ cube'.rotation.y = FMul(time', RotYFactor)
          /\ cube'.rotation.x = FMul(FSin(FMul(time', RotXPhase)), RotXAmp)
          /\ accentSphere'.position.y =
               FAdd(HoverBase, FMul(FSin(FMul(time', HoverPhase)), HoverAmp))
          /\ pending' = 1
          /\ pc' = "running"]_vars
  /\ []((uncaught /\ frames < MaxFrames) => ENABLED Frame)

\* a later frame in which render() threw: time has its value of that frame
C10_Witness ==
  /\ uncaught
  /\ calls = <<"update", "render">>
  /\ frames >= 2
  /\ pending = 1
  /\ time = Times[frames + 1]
====
